---- MODULE Spec2Model ----
(***************************************************************************)
(* prefer-const helpers of eslint-plugin-svelte                            *)
(* (src/rules/prefer-const-helpers/index.ts).                              *)
(*                                                                         *)
(* The module models                                                       *)
(*   - the syntax tree and scope graph the helpers read,                   *)
(*   - getIdentifierIfShouldBeConst and groupByDestructuring (Spec),       *)
(*   - the node reporter returned by createNodeReporter (SpecR),           *)
(*   - the text edit computed by the fixer (SpecF).                        *)
(***************************************************************************)
EXTENDS Integers, Sequences, FiniteSets, TLC

\* ------------------------------------------------------------------------
\* Bounds of the model
\* ------------------------------------------------------------------------

\* number of plain statements placed around the analysed write statement
MaxExtra == 1

\* number of statements that follow the declarations given to the reporter
MaxTail == 2

\* length of the source text given to the fixer
MaxText == 5

\* ------------------------------------------------------------------------
\* Syntax tree
\*
\* A statement is a record
\*   [wrap, outer, from, hosts]
\* hosts is the sequence of VariableDeclarator / AssignmentExpression /
\* other expression nodes directly below the statement node `wrap`, which
\* itself sits in a node of type `outer`.  Every host carries the tree of
\* its left-hand side (declarator id, assignment left, operand).
\* A tree node is [type, name, kids].
\* A node of the program is addressed by
\*   [s, h, up, p] : statement s, host h, path p into the host's left tree
\*   (up = 0), the host itself (up = 1), the statement node (up = 2) and
\*   the statement's parent (up = 3).
\* ------------------------------------------------------------------------

VARIABLES
    program,                 \* the parsed program: scopes, statements
    ignoreReadBeforeAssign,  \* option of the rule
    pc,                      \* position of the run
    identifierMap,           \* groupByDestructuring: sequence of [host, ids]
    destructuring,           \* option of the reporter: "any" or "all"
    reporter,                \* [reportCount, checkedId, checkedName] of the reporter
    reported,                \* number of groups passed to report() so far
    reports,                 \* context.report calls: [node, nodeParent, fix, group]
    analysed,                \* [variable, identifier]: the variables analysed so far
                             \* with the result of getIdentifierIfShouldBeConst
    sourceCode,              \* [text, tokens] handed to the fixer of a report
    fixParent,               \* [range, kind] of the declaration the fixer rewrites
    edit,                    \* the fixer's result: NoEdit or [range, text]
    output                   \* the source text after the edit has been applied

NullNode == [s |-> 0, h |-> 0, up |-> 0, p |-> <<>>]

Leaf(t, n) == [type |-> t, name |-> n, kids |-> <<>>]
Ident(n) == Leaf("Identifier", n)
Member == Leaf("MemberExpression", "")
Hole == Leaf("Hole", "")
Property(v) == [type |-> "Property", name |-> "", kids |-> <<v>>]
RestElement(a) == [type |-> "RestElement", name |-> "", kids |-> <<a>>]
AssignmentPattern(l) == [type |-> "AssignmentPattern", name |-> "", kids |-> <<l>>]
ObjectPattern(props) == [type |-> "ObjectPattern", name |-> "", kids |-> props]
ArrayPattern(elems) == [type |-> "ArrayPattern", name |-> "", kids |-> elems]

\* an initializer is [type, name, callee]; a callee is
\* [type, name, object, property] with object and property [type, name]
NoPart == [type |-> "none", name |-> ""]
NoCallee == [type |-> "none", name |-> "", object |-> NoPart, property |-> NoPart]
NoInit == [type |-> "none", name |-> "", callee |-> NoCallee]
LiteralInit == [NoInit EXCEPT !.type = "Literal"]
IdentInit(n) == [NoInit EXCEPT !.type = "Identifier", !.name = n]
CallInit(n) ==
    [NoInit EXCEPT !.type = "CallExpression",
                   !.callee = [NoCallee EXCEPT !.type = "Identifier", !.name = n]]
MemberCallInit(o, pr) ==
    [NoInit EXCEPT !.type = "CallExpression",
                   !.callee = [NoCallee EXCEPT !.type = "MemberExpression",
                                               !.object = [type |-> "Identifier", name |-> o],
                                               !.property = [type |-> "Identifier", name |-> pr]]]

Host(t, left, init, rw) == [type |-> t, left |-> left, init |-> init, rw |-> rw]
Stmt(wrap, outer, from, hosts) ==
    [wrap |-> wrap, outer |-> outer, from |-> from, kind |-> "let", hosts |-> hosts]

RECURSIVE NodeAt(_, _)
NodeAt(t, p) == IF p = <<>> THEN t ELSE NodeAt(t.kids[Head(p)], Tail(p))

Front(s) == SubSeq(s, 1, Len(s) - 1)

\* the declaration `let v;` of a variable that no statement of the program
\* declares; it is statement -i for the i-th name of the program
VarIndex(v) == CHOOSE i \in 1..Len(program.names) : program.names[i] = v
ImplicitDecl(v) ==
    Stmt("VariableDeclaration", "Program", 0,
         <<Host("VariableDeclarator", Ident(v), NoInit, "none")>>)
ImplicitName(s) == program.names[0 - s]

StmtOf(n) == IF n.s > 0 THEN program.stmts[n.s] ELSE ImplicitDecl(ImplicitName(n.s))

\* node.type
TypeOf(n) ==
    LET st == StmtOf(n) IN
    CASE n.up = 0 -> NodeAt(st.hosts[n.h].left, n.p).type
      [] n.up = 1 -> st.hosts[n.h].type
      [] n.up = 2 -> st.wrap
      [] OTHER -> st.outer

\* node.parent ; NullNode above the statement's parent
Parent(n) ==
    CASE n.up = 0 /\ n.p # <<>> -> [n EXCEPT !.p = Front(n.p)]
      [] n.up = 0 /\ n.p = <<>> -> [n EXCEPT !.up = 1]
      [] n.up = 1 -> [n EXCEPT !.up = 2, !.h = 0]
      [] n.up = 2 -> [n EXCEPT !.up = 3]
      [] OTHER -> NullNode

PATTERN_TYPE == {"ObjectPattern", "ArrayPattern", "AssignmentPattern", "RestElement",
                 "SpreadProperty", "ExperimentalRestProperty", "Property"}
DECLARATION_HOST_TYPE == {"Program", "BlockStatement", "StaticBlock", "SwitchCase"}
DESTRUCTURING_HOST_TYPE == {"VariableDeclarator", "AssignmentExpression"}

\* ------------------------------------------------------------------------
\* Scope graph (the scope manager's output, read by the helpers)
\*
\* Two scopes: 0, of type program.scope0, and 1, a block scope inside 0.
\* program.names are the variables, program.scopeOf gives the declaring
\* scope of each and program.params the names that are parameters.
\* ------------------------------------------------------------------------

NoScope == -1
Upper(scope) == IF scope = 1 THEN 0 ELSE NoScope
ScopeType(scope) == IF scope = 0 THEN program.scope0 ELSE "block"

RECURSIVE Concat(_)
Concat(ss) == IF ss = <<>> THEN <<>> ELSE Head(ss) \o Concat(Tail(ss))

\* paths of the Identifier leaves of a tree, in source order
RECURSIVE IdentPaths(_)
IdentPaths(t) ==
    IF t.type = "Identifier" THEN << <<>> >>
    ELSE Concat([i \in 1..Len(t.kids) |->
                   LET sub == IdentPaths(t.kids[i]) IN
                   [k \in 1..Len(sub) |-> <<i>> \o sub[k]]])

Ref(node, from, rw, v) ==
    [identifier |-> node, from |-> from,
     write |-> rw \in {"w", "rw"}, read |-> rw \in {"r", "rw"}, resolved |-> v]
NullRef == Ref(NullNode, NoScope, "none", "")

\* references the scope manager records for variable v in host h of statement s:
\* one per identifier, and one more for an identifier that carries a default
\* value (the left side of an AssignmentPattern is written by the default
\* and by the right-hand side)
HostRefs(s, h, v) ==
    LET st == program.stmts[s]
        host == st.hosts[h]
        paths == IdentPaths(host.left)
        one(p) ==
            LET n == [s |-> s, h |-> h, up |-> 0, p |-> p]
                r == Ref(n, st.from, host.rw, v)
            IN  IF NodeAt(host.left, p).name # v \/ host.rw = "none" THEN <<>>
                ELSE IF p # <<>> /\ NodeAt(host.left, Front(p)).type = "AssignmentPattern"
                     THEN <<r, r>>
                     ELSE <<r>>
    IN  Concat([k \in 1..Len(paths) |-> one(paths[k])])

\* variable.references
References(v) ==
    Concat([s \in 1..Len(program.stmts) |->
              Concat([h \in 1..Len(program.stmts[s].hosts) |-> HostRefs(s, h, v)])])

\* identifier nodes of v inside declarators, in source order
DeclaratorNodes(v) ==
    Concat([s \in 1..Len(program.stmts) |->
      Concat([h \in 1..Len(program.stmts[s].hosts) |->
        LET host == program.stmts[s].hosts[h]
            paths == IdentPaths(host.left)
        IN  IF host.type # "VariableDeclarator" THEN <<>>
            ELSE Concat([k \in 1..Len(paths) |->
                   IF NodeAt(host.left, paths[k]).name = v
                   THEN <<[s |-> s, h |-> h, up |-> 0, p |-> paths[k]]>>
                   ELSE <<>>])])])

\* variable.defs
Defs(v) ==
    LET ds == DeclaratorNodes(v) IN
    IF v \in program.params THEN <<[type |-> "Parameter", name |-> NullNode]>>
    ELSE IF ds # <<>> THEN <<[type |-> "Variable", name |-> ds[1]]>>
    ELSE <<[type |-> "Variable",
            name |-> [s |-> 0 - VarIndex(v), h |-> 1, up |-> 0, p |-> <<>>]]>>

Variable(v) ==
    [name |-> v, scope |-> program.scopeOf[v], eslintUsed |-> program.eslintUsed,
     defs |-> Defs(v), references |-> References(v)]
NullVariable ==
    [name |-> "", scope |-> NoScope, eslintUsed |-> FALSE, defs |-> <<>>, references |-> <<>>]

\* scope.set.get(name)
ScopeSetGet(scope, name) ==
    IF \E i \in 1..Len(program.names) :
            program.names[i] = name /\ program.scopeOf[name] = scope
    THEN Variable(name) ELSE NullVariable

\* scope.through: the references made in the scope that resolve to a variable
\* of an enclosing scope
Through(scope) ==
    Concat([i \in 1..Len(program.names) |->
        LET refs == References(program.names[i]) IN
        IF program.scopeOf[program.names[i]] >= scope THEN <<>>
        ELSE Concat([k \in 1..Len(refs) |->
                       IF refs[k].from >= scope THEN <<refs[k]>> ELSE <<>>])])

\* ------------------------------------------------------------------------
\* Mutability analyzer
\* ------------------------------------------------------------------------

RECURSIVE SkipPatternParents(_)
SkipPatternParents(node) ==
    IF node # NullNode /\ TypeOf(node) \in PATTERN_TYPE
    THEN SkipPatternParents(Parent(node))
    ELSE node

\* mutation: a declarator is not accepted
canBecomeVariableDeclaration_AssignmentOnly(identifier) ==
    LET node == SkipPatternParents(Parent(identifier)) IN
    IF node = NullNode THEN FALSE
    ELSE /\ TypeOf(node) = "AssignmentExpression"
         /\ TypeOf(Parent(node)) = "ExpressionStatement"
         /\ TypeOf(Parent(Parent(node))) \in DECLARATION_HOST_TYPE

canBecomeVariableDeclaration(identifier) ==
    LET node == SkipPatternParents(Parent(identifier)) IN
    IF node = NullNode THEN FALSE
    ELSE LET isValidAssignmentExpr ==
                 /\ TypeOf(node) = "AssignmentExpression"
                 /\ TypeOf(Parent(node)) = "ExpressionStatement"
                 /\ TypeOf(Parent(Parent(node))) \in DECLARATION_HOST_TYPE
         IN  TypeOf(node) = "VariableDeclarator" \/ isValidAssignmentExpr

RECURSIVE getVariableByName(_, _)
getVariableByName(initScope, name) ==
    IF initScope = NoScope THEN NullVariable
    ELSE LET variable == ScopeSetGet(initScope, name) IN
         IF variable # NullVariable THEN variable
         ELSE getVariableByName(Upper(initScope), name)

isOuterVariableInDestructing(name, initScope) ==
    LET through == Through(initScope) IN
    IF \E k \in 1..Len(through) : through[k].resolved # "" /\ through[k].resolved = name
    THEN TRUE
    ELSE LET variable == getVariableByName(initScope, name) IN
         IF variable # NullVariable
         THEN \E d \in 1..Len(variable.defs) : variable.defs[d].type = "Parameter"
         ELSE FALSE

RECURSIVE HostWalk(_)
HostWalk(node) ==
    IF TypeOf(node) \in PATTERN_TYPE /\ Parent(node) # NullNode
    THEN HostWalk(Parent(node))
    ELSE node

getDestructuringHost(reference) ==
    IF ~reference.write THEN NullNode
    ELSE LET node == HostWalk(Parent(reference.identifier)) IN
         IF TypeOf(node) \notin DESTRUCTURING_HOST_TYPE THEN NullNode ELSE node

RECURSIVE hasMemberExpressionAssignment(_)
hasMemberExpressionAssignment(node) ==
    CASE node.type = "MemberExpression" -> TRUE
      [] node.type = "ObjectPattern" ->
            \E i \in 1..Len(node.kids) :
                \* prop.argument of a RestElement, prop.value of a Property
                hasMemberExpressionAssignment(node.kids[i].kids[1])
      [] node.type = "ArrayPattern" ->
            \E i \in 1..Len(node.kids) :
                node.kids[i].type # "Hole" /\ hasMemberExpressionAssignment(node.kids[i])
      [] node.type = "AssignmentPattern" ->
            hasMemberExpressionAssignment(node.kids[1])
      [] OTHER -> FALSE

validateObjectPattern(node, variable) ==
    LET properties == node.kids
        hasOuterVariables ==
            \E i \in 1..Len(properties) :
                /\ properties[i].type = "Property"
                /\ properties[i].kids[1].type = "Identifier"
                /\ isOuterVariableInDestructing(properties[i].kids[1].name, variable.scope)
        hasNonIdentifiers == hasMemberExpressionAssignment(node)
    IN  hasOuterVariables \/ hasNonIdentifiers

validateArrayPattern(node, variable) ==
    LET elements == node.kids
        hasOuterVariables ==
            \E i \in 1..Len(elements) :
                /\ elements[i].type = "Identifier"
                /\ isOuterVariableInDestructing(elements[i].name, variable.scope)
        hasNonIdentifiers == hasMemberExpressionAssignment(node)
    IN  hasOuterVariables \/ hasNonIdentifiers

\* destructuringHost.left: only an AssignmentExpression has a `left`
LeftOf(host) == StmtOf(host).hosts[host.h].left
HasLeft(host) == host # NullNode /\ TypeOf(host) = "AssignmentExpression"

\* mutation: the comparison of the two identifier nodes inverted
isReassigned_SameNode(writer, reference) ==
    writer # NullRef /\ writer.identifier = reference.identifier

isReassigned(writer, reference) ==
    writer # NullRef /\ writer.identifier # reference.identifier

\* mutation: the scope of the write is not compared with the declaring scope
shouldBeConst_AnyScope(writer, variable) ==
    /\ writer # NullRef
    /\ canBecomeVariableDeclaration(writer.identifier)

shouldBeConst(writer, variable) ==
    /\ writer # NullRef
    /\ writer.from = variable.scope
    /\ canBecomeVariableDeclaration(writer.identifier)

\* the reference loop of getIdentifierIfShouldBeConst from index i on;
\* returns [returned (an early `return null`), writer, isReadBeforeInit]
RECURSIVE ScanReferences(_, _, _, _, _)
ScanReferences(variable, ignore, i, writer, isReadBeforeInit) ==
    IF i > Len(variable.references)
    THEN [returned |-> FALSE, writer |-> writer, isReadBeforeInit |-> isReadBeforeInit]
    ELSE
    LET reference == variable.references[i]
        stop == [returned |-> TRUE, writer |-> writer, isReadBeforeInit |-> isReadBeforeInit]
    IN  IF reference.write
        THEN LET destructuringHost == getDestructuringHost(reference)
                 isValidDestructuringHost == HasLeft(destructuringHost)
             IN  IF isReassigned(writer, reference) THEN stop
                 ELSE IF /\ isValidDestructuringHost
                         /\ \/ /\ LeftOf(destructuringHost).type = "ObjectPattern"
                               /\ validateObjectPattern(LeftOf(destructuringHost), variable)
                            \/ /\ LeftOf(destructuringHost).type = "ArrayPattern"
                               /\ validateArrayPattern(LeftOf(destructuringHost), variable)
                      THEN stop
                      ELSE ScanReferences(variable, ignore, i + 1, reference, isReadBeforeInit)
        ELSE IF reference.read /\ writer = NullRef
             THEN IF ignore THEN stop
                  ELSE ScanReferences(variable, ignore, i + 1, writer, TRUE)
             ELSE ScanReferences(variable, ignore, i + 1, writer, isReadBeforeInit)

\* mutation: the writer's identifier is returned whether or not a read
\* came before the write
getIdentifierIfShouldBeConst_WriterAnchor(variable, ignore) ==
    IF variable.eslintUsed /\ ScopeType(variable.scope) = "global" THEN NullNode
    ELSE
    LET scan == ScanReferences(variable, ignore, 1, NullRef, FALSE)
        writer == scan.writer
    IN  IF scan.returned THEN NullNode
        ELSE IF ~shouldBeConst(writer, variable) THEN NullNode
        ELSE writer.identifier

getIdentifierIfShouldBeConst(variable, ignore) ==
    IF variable.eslintUsed /\ ScopeType(variable.scope) = "global" THEN NullNode
    ELSE
    LET scan == ScanReferences(variable, ignore, 1, NullRef, FALSE)
        writer == scan.writer
    IN  IF scan.returned THEN NullNode
        ELSE IF ~shouldBeConst(writer, variable) THEN NullNode
        ELSE IF scan.isReadBeforeInit THEN variable.defs[1].name
        ELSE writer.identifier

\* identifierMap.has(group) / get / push / set, the Map kept in insertion order
MapIndex(map, group) ==
    IF \E k \in 1..Len(map) : map[k].host = group
    THEN CHOOSE k \in 1..Len(map) : map[k].host = group
    ELSE 0

MapPush(map, group, identifier) ==
    IF MapIndex(map, group) # 0
    THEN [map EXCEPT ![MapIndex(map, group)].ids = @ \o <<identifier>>]
    ELSE map \o <<[host |-> group, ids |-> <<identifier>>]>>

\* references.forEach of groupByDestructuring from index k on
RECURSIVE GroupReferences(_, _, _, _, _)
GroupReferences(references, identifier, k, prevId, map) ==
    IF k > Len(references) THEN map
    ELSE LET reference == references[k]
             id == reference.identifier
             group == getDestructuringHost(reference)
         IN  IF id = prevId
             THEN GroupReferences(references, identifier, k + 1, prevId, map)
             ELSE IF group = NullNode
                  THEN GroupReferences(references, identifier, k + 1, id, map)
                  ELSE GroupReferences(references, identifier, k + 1, id,
                                       MapPush(map, group, identifier))

\* the `for` loop of groupByDestructuring from index i on
RECURSIVE GroupVariables(_, _, _, _)
GroupVariables(vs, ignore, i, map) ==
    IF i > Len(vs) THEN map
    ELSE LET variable == Variable(vs[i])
             identifier == getIdentifierIfShouldBeConst(variable, ignore)
         IN  GroupVariables(vs, ignore, i + 1,
                            GroupReferences(variable.references, identifier, 1,
                                            NullNode, map))

groupByDestructuring(vs, ignore) == GroupVariables(vs, ignore, 1, <<>>)

\* ------------------------------------------------------------------------
\* Node reporter (createNodeReporter)
\*
\* The closure state is [reportCount, checkedId, checkedName]; every helper
\* that writes it returns the new state next to its result.
\* ------------------------------------------------------------------------

NewReporter == [reportCount |-> 0, checkedId |-> NullNode, checkedName |-> ""]

\* parentNode.type.endsWith('Statement')
StatementTypes == {"ExpressionStatement", "BlockStatement", "IfStatement", "ReturnStatement",
                   "ForStatement", "ForInStatement", "ForOfStatement"}

RECURSIVE findUp(_, _)
findUp(node, type) ==
    IF node = NullNode \/ TypeOf(node) \in StatementTypes \/ Parent(node) = NullNode
    THEN NullNode
    ELSE IF TypeOf(node) = type THEN node
    ELSE findUp(Parent(node), type)

\* declaration.declarations and the parts of a declarator
Declarations(declaration) == StmtOf(declaration).hosts
DeclaratorId(declaration, k) == [s |-> declaration.s, h |-> k, up |-> 0, p |-> <<>>]

\* the `init` of the host above a node
InitOf(host) == StmtOf(host).hosts[host.h].init

findIdentifierCallee(node) ==
    LET parent == Parent(node) IN
    IF TypeOf(parent) = "VariableDeclarator" /\ InitOf(parent).type = "CallExpression"
    THEN InitOf(parent).callee
    ELSE IF /\ TypeOf(parent) = "Property"
            /\ TypeOf(Parent(parent)) = "ObjectPattern"
            /\ TypeOf(Parent(Parent(parent))) = "VariableDeclarator"
            /\ InitOf(Parent(Parent(parent))).type = "CallExpression"
         THEN InitOf(Parent(Parent(parent))).callee
         ELSE NoCallee

skipReactiveValues(identifier) ==
    IF identifier = NullNode \/ Parent(identifier) = NullNode THEN FALSE
    ELSE LET callee == findIdentifierCallee(identifier) IN
         IF callee = NoCallee THEN TRUE
         ELSE IF callee.type = "Identifier" /\ callee.name \in {"$state", "$props", "$derived"}
              THEN FALSE
         ELSE IF callee.type # "MemberExpression" \/ callee.object.type # "Identifier"
              THEN TRUE
         ELSE IF /\ callee.object.name = "$derived"
                 /\ callee.property.type = "Identifier"
                 /\ callee.property.name = "by"
              THEN FALSE
         ELSE IF /\ callee.object.name = "$state"
                 /\ callee.property.type = "Identifier"
                 /\ callee.property.name = "frozen"
              THEN FALSE
         ELSE TRUE

checkDeclarator(state, declaration) ==
    LET declarator == Declarations(declaration)[1]
        id == declarator.left
        idNode == DeclaratorId(declaration, 1)
        named == IF id.type = "Identifier" /\ id.name # state.checkedName
                 THEN [state EXCEPT !.checkedName = id.name, !.reportCount = 0]
                 ELSE state
        fromInit == IF /\ id.type = "ObjectPattern"
                       /\ declarator.init.type = "Identifier"
                       /\ declarator.init.name # named.checkedName
                    THEN [named EXCEPT !.checkedName = declarator.init.name, !.reportCount = 0]
                    ELSE named
    IN  IF declarator.init.type = "none" THEN state
        ELSE IF idNode # fromInit.checkedId
             THEN [fromInit EXCEPT !.checkedId = idNode, !.reportCount = 0]
             ELSE fromInit

\* number of bindings the reducer counts for one declarator
CountedBindings(declarator) ==
    IF declarator.left.type \in {"ObjectPattern", "ArrayPattern"}
    THEN Len(declarator.left.kids)
    ELSE 1

RECURSIVE SumBindings(_, _)
SumBindings(declarators, k) ==
    IF k > Len(declarators) THEN 0
    ELSE CountedBindings(declarators[k]) + SumBindings(declarators, k + 1)

\* returns [state, total]; total = -1 for a declaration of one declarator
checkDestructuredDeclaration(state, declaration, totalNodes) ==
    LET declarators == Declarations(declaration) IN
    IF Len(declarators) = 1 THEN [state |-> state, total |-> -1]
    ELSE IF ~(Len(declarators) >= 1) THEN [state |-> state, total |-> -1]
    ELSE [state |-> [state EXCEPT !.reportCount = @ + totalNodes],
          total |-> SumBindings(declarators, 1)]

\* mutation: a group with null members may be fixed
FixPrecondition_Partial(declaration, totalNodes, totalInitialNodes) ==
    LET isParentForStatement ==
            TypeOf(Parent(declaration)) \in {"ForInStatement", "ForOfStatement"}
        areAllDeclarationsInitialized ==
            \A k \in 1..Len(Declarations(declaration)) :
                Declarations(declaration)[k].init.type # "none"
    IN  isParentForStatement \/ areAllDeclarationsInitialized

\* mutation: the head of a for-in / for-of statement is not recognised
FixPrecondition_NoLoopHead(declaration, totalNodes, totalInitialNodes) ==
    LET areAllDeclarationsInitialized ==
            \A k \in 1..Len(Declarations(declaration)) :
                Declarations(declaration)[k].init.type # "none"
    IN  totalNodes = totalInitialNodes /\ areAllDeclarationsInitialized

\* the local `shouldFix` of checkShouldFix
FixPrecondition(declaration, totalNodes, totalInitialNodes) ==
    LET isParentForStatement ==
            TypeOf(Parent(declaration)) \in {"ForInStatement", "ForOfStatement"}
        areAllDeclarationsInitialized ==
            \A k \in 1..Len(Declarations(declaration)) :
                Declarations(declaration)[k].init.type # "none"
    IN  /\ totalNodes = totalInitialNodes
        /\ (isParentForStatement \/ areAllDeclarationsInitialized)

\* returns [state, shouldFix]
checkShouldFix(state, declaration, totalNodes, totalInitialNodes) ==
    LET shouldFix == FixPrecondition(declaration, totalNodes, totalInitialNodes)
        counted == checkDestructuredDeclaration(state, declaration, totalNodes)
    IN  IF counted.total = -1
        THEN [state |-> counted.state, shouldFix |-> shouldFix]
        ELSE [state |-> counted.state,
              shouldFix |-> shouldFix /\ counted.state.reportCount = counted.total]

NonNull(nodes) == SelectSeq(nodes, LAMBDA n : n # NullNode)

\* mutation: the "all" mode is not honoured
shouldCheckGroup_Any(mode, nodes, initialNodes) == Len(nodes) # 0

shouldCheckGroup(mode, nodes, initialNodes) ==
    LET shouldMatchAnyDestructuredVariable == mode # "all" IN
    /\ Len(nodes) # 0
    /\ (shouldMatchAnyDestructuredVariable \/ Len(initialNodes) = Len(nodes))

\* returns [state, reports]; group is the number of the report() call
checkAndReportNodes(state, initialNodes, group) ==
    LET nodes == NonNull(initialNodes) IN
    IF ~shouldCheckGroup(destructuring, nodes, initialNodes)
    THEN [state |-> state, reports |-> <<>>]
    ELSE
    LET variableDeclarationParent == findUp(nodes[1], "VariableDeclaration")
        isValidDecParent ==
            /\ variableDeclarationParent # NullNode
            /\ Len(Declarations(variableDeclarationParent)) > 0
        checked == IF isValidDecParent
                   THEN checkDeclarator(state, variableDeclarationParent)
                   ELSE state
        fix == IF isValidDecParent
               THEN checkShouldFix(checked, variableDeclarationParent,
                                   Len(nodes), Len(initialNodes))
               ELSE [state |-> checked, shouldFix |-> FALSE]
        kept == SelectSeq(nodes, skipReactiveValues)
    IN  [state |-> fix.state,
         reports |-> [k \in 1..Len(kept) |->
                        [node |-> kept[k], nodeParent |-> variableDeclarationParent,
                         fix |-> fix.shouldFix, group |-> group]]]

\* ------------------------------------------------------------------------
\* Programs given to the analyzer
\*
\* A program is one write statement of "a" (WriteStatements: every shape of
\* declarator, assignment and destructuring pattern the helpers tell apart)
\* with up to MaxExtra plain statements before and after it.
\* ------------------------------------------------------------------------

\* [names, scopeOf, params, scope0, eslintUsed]: "a" in scope sa, "b" in
\* scope sb, "b" a parameter or not
Layout(sa, sb, param, scope0, used) ==
    [names |-> <<"a", "b">>,
     scopeOf |-> [v \in {"a", "b"} |-> IF v = "a" THEN sa ELSE sb],
     params |-> IF param THEN {"b"} ELSE {}, scope0 |-> scope0, eslintUsed |-> used]

Layouts ==
    { Layout(0, 0, FALSE, "global", FALSE), Layout(0, 0, FALSE, "global", TRUE),
      Layout(0, 0, FALSE, "function", TRUE),
      Layout(1, 1, FALSE, "global", FALSE), Layout(1, 1, FALSE, "global", TRUE),
      Layout(1, 0, FALSE, "global", FALSE),
      Layout(1, 0, TRUE, "function", FALSE),
      Layout(0, 0, TRUE, "function", FALSE) }

\* a member of an object or array pattern holding target x
Wrap(top, w, x) ==
    LET inner == CASE w = "direct" -> x
                   [] w = "default" -> AssignmentPattern(x)
                   [] w = "object" -> ObjectPattern(<<Property(x)>>)
                   [] w = "array" -> ArrayPattern(<<x>>)
                   [] OTHER -> RestElement(x)
    IN  IF top = "ObjectPattern" /\ w # "rest" THEN Property(inner) ELSE inner

Pattern(top, members) ==
    IF top = "ObjectPattern" THEN ObjectPattern(members) ELSE ArrayPattern(members)

Tops == {"ObjectPattern", "ArrayPattern"}

\* the members written next to "a": another variable or a member expression
OtherMembers(top, withMember) ==
    {<<>>}
    \cup { <<Wrap(top, w, Ident("b"))>> : w \in {"direct", "default", "array"} }
    \cup (IF withMember
          THEN { <<Wrap(top, w, Member)>> :
                    w \in {"direct", "default", "object", "array", "rest"} }
          ELSE {})
    \cup (IF top = "ArrayPattern" THEN {<<Hole>>} ELSE {})

Patterns(withMember) ==
    UNION { { Pattern(top, <<Wrap(top, w, Ident("a"))>> \o o) :
                w \in {"direct", "default"}, o \in OtherMembers(top, withMember) }
            \cup { Pattern(top, <<Wrap(top, "array", Ident("a"))>> \o o) :
                     o \in {<<>>, <<Wrap(top, "direct", Ident("b"))>>} }
          : top \in Tops }

MentionsB(tree) ==
    \E k \in 1..Len(IdentPaths(tree)) : NodeAt(tree, IdentPaths(tree)[k]).name = "b"

AssignmentContexts ==
    { <<"ExpressionStatement", "Program">>, <<"ExpressionStatement", "BlockStatement">>,
      <<"ExpressionStatement", "StaticBlock">>, <<"ExpressionStatement", "SwitchCase">>,
      <<"ExpressionStatement", "IfStatement">>, <<"ReturnStatement", "BlockStatement">> }

WriteStatements(layout) ==
    LET sa == layout.scopeOf["a"]
        declaresB == layout.scopeOf["b"] = sa /\ layout.params = {}
    IN  \* let a = 1  /  for (let a of xs)
        { Stmt("VariableDeclaration", "Program", sa,
               <<Host("VariableDeclarator", Ident("a"), LiteralInit, "w")>>),
          Stmt("VariableDeclaration", "ForOfStatement", sa,
               <<Host("VariableDeclarator", Ident("a"), NoInit, "w")>>),
        \* a += 1
          Stmt("ExpressionStatement", "Program", sa,
               <<Host("AssignmentExpression", Ident("a"), LiteralInit, "rw")>>) }
        \* a = 1 in every position
        \cup { Stmt(c[1], c[2], from,
                    <<Host("AssignmentExpression", Ident("a"), LiteralInit, "w")>>) :
                 c \in AssignmentContexts, from \in sa..1 }
        \* ({ a, ... } = o)  /  [a, ...] = o
        \cup { Stmt("ExpressionStatement", "Program", from,
                    <<Host("AssignmentExpression", left, LiteralInit, "w")>>) :
                 left \in Patterns(TRUE), from \in sa..1 }
        \* let { a, ... } = o  /  let [a, ...] = o
        \cup { Stmt("VariableDeclaration", "Program", sa,
                    <<Host("VariableDeclarator", left, LiteralInit, "w")>>) :
                 left \in { q \in Patterns(FALSE) : declaresB \/ ~MentionsB(q) } }

\* use(a)   a = 1   b = 1
PlainStatements(layout) ==
    { Stmt("ExpressionStatement", "Program", layout.scopeOf["a"],
           <<Host("CallExpression", Ident("a"), NoInit, "r")>>) }
    \cup { Stmt("ExpressionStatement", "Program", from,
                <<Host("AssignmentExpression", Ident("a"), LiteralInit, "w")>>) :
             from \in layout.scopeOf["a"]..1 }
    \cup { Stmt("ExpressionStatement", "Program", layout.scopeOf["a"],
                <<Host("AssignmentExpression", Ident("b"), LiteralInit, "w")>>) }

RECURSIVE SeqsUpTo(_, _)
SeqsUpTo(S, n) ==
    IF n = 0 THEN {<<>>}
    ELSE LET shorter == SeqsUpTo(S, n - 1) IN
         shorter \cup { <<x>> \o q : x \in S, q \in { r \in shorter : Len(r) = n - 1 } }

ProgramsOf(layout) ==
    LET plain == SeqsUpTo(PlainStatements(layout), MaxExtra) IN
    { [names |-> layout.names, scopeOf |-> layout.scopeOf, params |-> layout.params,
       scope0 |-> layout.scope0, eslintUsed |-> layout.eslintUsed,
       stmts |-> around[1] \o <<w>> \o around[2]] :
        w \in WriteStatements(layout),
        around \in { pr \in plain \X plain : Len(pr[1]) + Len(pr[2]) <= MaxExtra } }

Programs == UNION { ProgramsOf(layout) : layout \in Layouts }

\* ------------------------------------------------------------------------
\* Programs given to the reporter
\*
\* One declaration of a, b, c in every declarator shape the reporter tells
\* apart, optionally a second declaration of w and z, and up to MaxTail
\* statements that assign or read the declared variables.  All of it sits
\* in one module scope.
\* ------------------------------------------------------------------------

Declarator(id, init) ==
    Host("VariableDeclarator", id, init, IF init = NoInit THEN "none" ELSE "w")

Declaration(declarators) == Stmt("VariableDeclaration", "Program", 0, declarators)

FirstDeclarations ==
    { \* let a = 1 / $state(0) / $derived.by(f) / $state.frozen(0) / foo.by(f)
      Declaration(<<Declarator(Ident("a"), init)>>) :
        init \in { LiteralInit, CallInit("$state"), MemberCallInit("$derived", "by"),
                   MemberCallInit("$state", "frozen"), MemberCallInit("foo", "by") } }
    \cup
    { \* let a;
      Declaration(<<Declarator(Ident("a"), NoInit)>>),
      \* for (let a of xs)
      Stmt("VariableDeclaration", "ForOfStatement", 0,
           <<Host("VariableDeclarator", Ident("a"), NoInit, "w")>>),
      \* let { a, b } = obj / $props()
      Declaration(<<Declarator(ObjectPattern(<<Property(Ident("a")), Property(Ident("b"))>>),
                               IdentInit("obj"))>>),
      Declaration(<<Declarator(ObjectPattern(<<Property(Ident("a")), Property(Ident("b"))>>),
                               CallInit("$props"))>>),
      \* let { a = 1 } = $props()
      Declaration(<<Declarator(ObjectPattern(<<Property(AssignmentPattern(Ident("a")))>>),
                               CallInit("$props"))>>),
      \* let [a, b] = $derived(pair)
      Declaration(<<Declarator(ArrayPattern(<<Ident("a"), Ident("b")>>),
                               CallInit("$derived"))>>),
      \* let a = 1, b = 2
      Declaration(<<Declarator(Ident("a"), LiteralInit), Declarator(Ident("b"), LiteralInit)>>),
      \* let a = $state(0), b = 2
      Declaration(<<Declarator(Ident("a"), CallInit("$state")),
                    Declarator(Ident("b"), LiteralInit)>>),
      \* let a = 1, b
      Declaration(<<Declarator(Ident("a"), LiteralInit), Declarator(Ident("b"), NoInit)>>),
      \* let { p: [a, b] } = obj, c = 1
      Declaration(<<Declarator(ObjectPattern(<<Property(ArrayPattern(<<Ident("a"), Ident("b")>>))>>),
                               IdentInit("obj")),
                    Declarator(Ident("c"), LiteralInit)>>),
      \* let [a, , b] = list, c = 1
      Declaration(<<Declarator(ArrayPattern(<<Ident("a"), Hole, Ident("b")>>), IdentInit("list")),
                    Declarator(Ident("c"), LiteralInit)>>),
      \* let { a, b } = obj, c = 1
      Declaration(<<Declarator(ObjectPattern(<<Property(Ident("a")), Property(Ident("b"))>>),
                               IdentInit("obj")),
                    Declarator(Ident("c"), LiteralInit)>>),
      \* let a = 1, b = 2, c = 3
      Declaration(<<Declarator(Ident("a"), LiteralInit), Declarator(Ident("b"), LiteralInit),
                    Declarator(Ident("c"), LiteralInit)>>) }

SecondDeclarations ==
    { <<>>,
      \* let w, z
      <<Declaration(<<Declarator(Ident("w"), NoInit), Declarator(Ident("z"), NoInit)>>)>>,
      \* let w = 1, z
      <<Declaration(<<Declarator(Ident("w"), LiteralInit), Declarator(Ident("z"), NoInit)>>)>> }

\* names a sequence of declarations declares, in source order
RECURSIVE DeclaredNames(_)
DeclaredNames(decls) ==
    IF decls = <<>> THEN <<>>
    ELSE Concat([h \in 1..Len(Head(decls).hosts) |->
                   LET left == Head(decls).hosts[h].left
                       paths == IdentPaths(left)
                   IN  [k \in 1..Len(paths) |-> NodeAt(left, paths[k]).name]])
         \o DeclaredNames(Tail(decls))

InNames(names, v) == \E i \in 1..Len(names) : names[i] = v

\* v = 1   use(z)   [b, z] = pair()
TailStatements(names) ==
    { Stmt("ExpressionStatement", "Program", 0,
           <<Host("AssignmentExpression", Ident(names[i]), LiteralInit, "w")>>) :
        i \in { j \in 1..Len(names) : names[j] # "w" } }
    \cup (IF InNames(names, "z")
          THEN { Stmt("ExpressionStatement", "Program", 0,
                      <<Host("CallExpression", Ident("z"), NoInit, "r")>>) }
          ELSE {})
    \cup (IF InNames(names, "z") /\ InNames(names, "b")
          THEN { Stmt("ExpressionStatement", "Program", 0,
                      <<Host("AssignmentExpression", ArrayPattern(<<Ident("b"), Ident("z")>>),
                             LiteralInit, "w")>>) }
          ELSE {})

ReporterProgramsOf(decls) ==
    LET names == DeclaredNames(decls) IN
    { [names |-> names, scopeOf |-> [v \in {names[i] : i \in 1..Len(names)} |-> 0],
       params |-> {}, scope0 |-> "module", eslintUsed |-> FALSE,
       stmts |-> decls \o tail] :
        tail \in SeqsUpTo(TailStatements(names), MaxTail) }

ReporterPrograms ==
    UNION { ReporterProgramsOf(<<first>> \o second) :
              first \in FirstDeclarations, second \in SecondDeclarations }

\* the `variables` argument of groupByDestructuring: the let-declared variables
LetVariables ==
    Concat([i \in 1..Len(program.names) |->
              IF program.names[i] \in program.params THEN <<>> ELSE <<program.names[i]>>])

\* ------------------------------------------------------------------------
\* The fixer of a report (report, lines 452-472)
\* ------------------------------------------------------------------------

\* ranges are pairs <<start, end>> of offsets into the text, end excluded
NullRange == <<>>
NullToken == [range |-> NullRange, value |-> ""]
NoEdit == [range |-> NullRange, text |-> <<>>]
Min(a, b) == IF a < b THEN a ELSE b
Max(a, b) == IF a > b THEN a ELSE b

\* String.prototype.slice(start, end)
Slice(text, range) == SubSeq(text, range[1] + 1, range[2])

Const == <<"c", "o", "n", "s", "t">>

\* sourceCode.getFirstToken(nodeParent, { filter: t => t.value === kind })
RECURSIVE FirstToken(_, _, _)
FirstToken(tokens, kind, i) ==
    IF i > Len(tokens) THEN NullToken
    ELSE IF tokens[i].value = kind THEN tokens[i]
    ELSE FirstToken(tokens, kind, i + 1)

getFirstToken(tokens, kind) == FirstToken(tokens, kind, 1)

\* mutation: the retained suffix starts where the given range starts
calculateRetainedTextRange_FromStart(range, retainedRange) ==
    LET actualRange ==
            IF retainedRange # NullRange
            THEN <<Min(retainedRange[1], range[1]), Max(retainedRange[2], range[2])>>
            ELSE range
    IN  << <<actualRange[1], range[1]>>, <<range[1], actualRange[2]>> >>

calculateRetainedTextRange(range, retainedRange) ==
    LET actualRange ==
            IF retainedRange # NullRange
            THEN <<Min(retainedRange[1], range[1]), Max(retainedRange[2], range[2])>>
            ELSE range
    IN  << <<actualRange[1], range[1]>>, <<range[2], actualRange[2]>> >>

\* fixer.replaceTextRange(range, text) applied to the source text
replaceTextRange(source, range, text) ==
    SubSeq(source, 1, range[1]) \o text \o SubSeq(source, range[2] + 1, Len(source))

\* the inputs of the fixer: a text, the range of the declaration in it, and
\* the tokens of the declaration, in the order of the text
Texts == UNION { [1..n -> {"a", "b"}] : n \in 1..MaxText }
Ranges(lo, hi) == { r \in (lo..hi) \X (lo..hi) : r[1] < r[2] }
Token(range, value) == [range |-> range, value |-> value]
TokenLists(range) ==
    LET one == { Token(r, v) : r \in Ranges(range[1], range[2]), v \in {"let", "id"} } IN
    {<<>>} \cup { <<t>> : t \in one }
           \cup { <<p[1], p[2]>> : p \in { q \in one \X one : q[1].range[2] <= q[2].range[1] } }
NoSourceCode == [text |-> <<>>, tokens |-> <<>>]
NoParent == [range |-> NullRange, kind |-> ""]

fixVars == <<sourceCode, fixParent, edit, output>>

vars == <<program, ignoreReadBeforeAssign, pc, identifierMap, analysed,
          destructuring, reporter, reported, reports, fixVars>>

Init ==
    /\ program \in Programs
    /\ ignoreReadBeforeAssign \in BOOLEAN
    /\ pc = "group"
    /\ identifierMap = <<>>
    /\ analysed = <<>>
    /\ destructuring = "any"
    /\ reporter = NewReporter
    /\ reported = 0
    /\ reports = <<>>
    /\ sourceCode = NoSourceCode
    /\ fixParent = NoParent
    /\ edit = NoEdit
    /\ output = <<>>

\* groupByDestructuring(variables, ignoreReadBeforeAssign)
GroupByDestructuring ==
    /\ pc = "group"
    /\ identifierMap' = groupByDestructuring(LetVariables, ignoreReadBeforeAssign)
    /\ analysed' = [i \in 1..Len(LetVariables) |->
                      [variable |-> Variable(LetVariables[i]),
                       identifier |-> getIdentifierIfShouldBeConst(
                                          Variable(LetVariables[i]), ignoreReadBeforeAssign)]]
    /\ pc' = "report"
    /\ UNCHANGED <<program, ignoreReadBeforeAssign, destructuring, reporter, reported, reports>>
    /\ UNCHANGED fixVars

\* report(group) for the next group of the map, in the Map's iteration order
ReportGroup ==
    /\ pc = "report"
    /\ reported < Len(identifierMap)
    /\ LET call == checkAndReportNodes(reporter, identifierMap[reported + 1].ids,
                                       reported + 1)
       IN  /\ reporter' = call.state
           /\ reports' = reports \o call.reports
    /\ reported' = reported + 1
    /\ UNCHANGED <<program, ignoreReadBeforeAssign, pc, identifierMap, analysed, destructuring>>
    /\ UNCHANGED fixVars

Next == GroupByDestructuring \/ ReportGroup

InitR ==
    /\ program \in ReporterPrograms
    /\ ignoreReadBeforeAssign = FALSE
    /\ pc = "group"
    /\ identifierMap = <<>>
    /\ analysed = <<>>
    /\ destructuring \in {"any", "all"}
    /\ reporter = NewReporter
    /\ reported = 0
    /\ reports = <<>>
    /\ sourceCode = NoSourceCode
    /\ fixParent = NoParent
    /\ edit = NoEdit
    /\ output = <<>>

SpecR == InitR /\ [][Next]_vars

Spec == Init /\ [][Next]_vars

\* the fixer of one report, run on a text of its own
NoProgram == [names |-> <<>>, stmts |-> <<>>, scope0 |-> "module", params |-> {},
              scopeOf |-> <<>>, eslintUsed |-> FALSE]

InitF ==
    /\ program = NoProgram
    /\ ignoreReadBeforeAssign = FALSE
    /\ pc = "fix"
    /\ identifierMap = <<>>
    /\ analysed = <<>>
    /\ destructuring = "any"
    /\ reporter = NewReporter
    /\ reported = 0
    /\ reports = <<>>
    /\ \E text \in Texts :
          \E range \in Ranges(0, Len(text)) :
            \E tokens \in TokenLists(range) :
              /\ sourceCode = [text |-> text, tokens |-> tokens]
              /\ fixParent = [range |-> range, kind |-> "let"]
    /\ edit = NoEdit
    /\ output = <<>>

\* the fix callback of report (lines 452-472)
Fix ==
    /\ pc = "fix"
    /\ LET letKeywordToken == getFirstToken(sourceCode.tokens, fixParent.kind) IN
       IF letKeywordToken = NullToken
       THEN edit' = NoEdit
       ELSE LET ranges == calculateRetainedTextRange(letKeywordToken.range, fixParent.range)
                initialRange == ranges[1]
                finalRange == ranges[2]
                prefix == Slice(sourceCode.text, initialRange)
                suffix == Slice(sourceCode.text, finalRange)
            IN  edit' = [range |-> <<initialRange[1], finalRange[2]>>,
                         text |-> prefix \o Const \o suffix]
    /\ pc' = "apply"
    /\ UNCHANGED <<program, ignoreReadBeforeAssign, identifierMap, analysed,
                   destructuring, reporter, reported, reports,
                   sourceCode, fixParent, output>>

\* the edit returned by the fixer is applied to the text; a null result
\* leaves the text alone
ApplyFix ==
    /\ pc = "apply"
    /\ output' = IF edit = NoEdit
                 THEN sourceCode.text
                 ELSE replaceTextRange(sourceCode.text, edit.range, edit.text)
    /\ pc' = "done"
    /\ UNCHANGED <<program, ignoreReadBeforeAssign, identifierMap, analysed,
                   destructuring, reporter, reported, reports,
                   sourceCode, fixParent, edit>>

NextF == Fix \/ ApplyFix

SpecF == InitF /\ [][NextF]_vars

\* ------------------------------------------------------------------------
\* Properties of the analyzer (Spec)
\* ------------------------------------------------------------------------

\* the variables analysed so far, by their index in `analysed`
Analysed == 1..Len(analysed)

WriteRefs(i) == { k \in 1..Len(analysed[i].variable.references) : analysed[i].variable.references[k].write }
WriteNodes(i) == { analysed[i].variable.references[k].identifier : k \in WriteRefs(i) }

\* the host node above an identifier and the pattern nodes around it
HostIndex(node) == [node EXCEPT !.up = 1, !.p = <<>>]

\* read off the statement: the write sits in a declarator, or in an
\* assignment that is an expression statement of a declaration host
SitsInDeclarable(node) ==
    LET st == StmtOf(node)
        host == st.hosts[node.h]
    IN  \/ host.type = "VariableDeclarator"
        \/ /\ host.type = "AssignmentExpression"
           /\ st.wrap = "ExpressionStatement"
           /\ st.outer \in {"Program", "BlockStatement", "StaticBlock", "SwitchCase"}

\* C1: a variable whose references contain two write references at different
\* identifier nodes is never convertible, whatever the option and the rest of
\* the program.
C1_TwoWritesNotConvertible ==
    \A i \in Analysed :
        Cardinality(WriteNodes(i)) >= 2 => analysed[i].identifier = NullNode

\* a variable written at two nodes whose first write alone would qualify has
\* been analysed
C1_Witness ==
    \E i \in Analysed :
        /\ Cardinality(WriteNodes(i)) >= 2
        /\ ~program.eslintUsed
        /\ \A k \in WriteRefs(i) :
              /\ analysed[i].variable.references[k].from = analysed[i].variable.scope
              /\ SitsInDeclarable(analysed[i].variable.references[k].identifier)
        /\ analysed[i].identifier = NullNode

\* C10: a non-null result needs a write reference made from the declaring
\* scope whose identifier sits in a declarator or in an assignment that is an
\* expression statement directly inside Program, BlockStatement, StaticBlock
\* or SwitchCase.
C10_ConvertibleOnlyIfDeclarableWrite ==
    \A i \in Analysed :
        analysed[i].identifier # NullNode =>
            \E k \in WriteRefs(i) :
                /\ analysed[i].variable.references[k].from = analysed[i].variable.scope
                /\ SitsInDeclarable(analysed[i].variable.references[k].identifier)

\* a variable written in an assignment of a nested scope, and one written in
\* `if (..) a = 1`, have been analysed and are convertible elsewhere
C10_Witness ==
    /\ \E i \in Analysed : analysed[i].identifier # NullNode
    /\ \E i \in Analysed :
          /\ analysed[i].identifier = NullNode
          /\ Cardinality(WriteNodes(i)) = 1
          /\ ~program.eslintUsed
          /\ \E k \in WriteRefs(i) :
                \/ analysed[i].variable.references[k].from # analysed[i].variable.scope
                \/ ~SitsInDeclarable(analysed[i].variable.references[k].identifier)

\* the single write reference of an analysed variable
TheWrite(i) == analysed[i].variable.references[CHOOSE k \in WriteRefs(i) : TRUE]

WrittenOnceInOwnScope(i) ==
    /\ Cardinality(WriteRefs(i)) = 1
    /\ TheWrite(i).from = analysed[i].variable.scope

\* a pure read stands before the first write in the reference order
ReadBeforeWrite(i) ==
    LET refs == analysed[i].variable.references IN
    \E r \in 1..Len(refs) :
        /\ refs[r].read /\ ~refs[r].write
        /\ \A k \in 1..r : ~refs[k].write

\* the left side of the assignment that holds a written identifier, when it
\* is an object or array pattern
InPatternAssignment(node) ==
    LET host == StmtOf(node).hosts[node.h] IN
    host.type = "AssignmentExpression" /\ host.left.type \in {"ObjectPattern", "ArrayPattern"}

PatternRejected(i) ==
    LET node == TheWrite(i).identifier
        left == StmtOf(node).hosts[node.h].left
    IN  /\ InPatternAssignment(node)
        /\ IF left.type = "ObjectPattern"
           THEN validateObjectPattern(left, analysed[i].variable)
           ELSE validateArrayPattern(left, analysed[i].variable)

\* C2 as stated: one write reference, made from the declaring scope, makes
\* the variable convertible.
C2_SingleOwnScopeWriteConvertible ==
    \A i \in Analysed : WrittenOnceInOwnScope(i) => analysed[i].identifier # NullNode

\* C2 amended: one write reference, made from the declaring scope, makes the
\* variable convertible provided the variable is not an eslintUsed variable
\* of the global scope, the write sits in a declarator or in an assignment
\* statement of a declaration host, no read precedes the write while
\* ignoreReadBeforeAssign is set, and the write is not in a destructuring
\* assignment whose pattern is rejected.
C2_SingleDeclarableWriteConvertible ==
    \A i \in Analysed :
        ( /\ WrittenOnceInOwnScope(i)
          /\ ~(analysed[i].variable.eslintUsed
                /\ analysed[i].variable.scope = 0 /\ program.scope0 = "global")
          /\ SitsInDeclarable(TheWrite(i).identifier)
          /\ ~(ignoreReadBeforeAssign /\ ReadBeforeWrite(i))
          /\ ~PatternRejected(i) )
        => analysed[i].identifier # NullNode

\* a variable written once by a destructuring assignment of its own scope,
\* after a read, has been analysed and is convertible
C2_Witness ==
    \E i \in Analysed :
        /\ WrittenOnceInOwnScope(i)
        /\ InPatternAssignment(TheWrite(i).identifier)
        /\ ReadBeforeWrite(i)
        /\ analysed[i].identifier # NullNode

\* C3: a variable written by a destructuring assignment whose pattern holds,
\* at any depth, an identifier of a variable of a scope outer to the analysed
\* variable's scope is not convertible.
C3_OuterMemberBlocksPattern ==
    \A i \in Analysed :
        \A k \in WriteRefs(i) :
            LET node == analysed[i].variable.references[k].identifier
                left == StmtOf(node).hosts[node.h].left
                paths == IdentPaths(left)
            IN  ( /\ InPatternAssignment(node)
                  /\ \E q \in 1..Len(paths) :
                        program.scopeOf[NodeAt(left, paths[q]).name]
                            < analysed[i].variable.scope )
                => analysed[i].identifier = NullNode

\* ------------------------------------------------------------------------
\* Properties of the reporter (SpecR)
\* ------------------------------------------------------------------------

\* the groups passed to report() so far, by their index in identifierMap
Processed == 1..reported
ReportsOf(k) == { i \in 1..Len(reports) : reports[i].group = k }
Members(k) == identifierMap[k].ids
NonNullMembers(k) == { Members(k)[j] : j \in { m \in 1..Len(Members(k)) : Members(k)[m] # NullNode } }
HasNull(k) == \E j \in 1..Len(Members(k)) : Members(k)[j] = NullNode

\* the initializer is a call of $state, $props, $derived, $derived.by or
\* $state.frozen
IsOptOutCall(init) ==
    /\ init.type = "CallExpression"
    /\ \/ init.callee.type = "Identifier" /\ init.callee.name \in {"$state", "$props", "$derived"}
       \/ /\ init.callee.type = "MemberExpression"
          /\ init.callee.object = [type |-> "Identifier", name |-> "$derived"]
          /\ init.callee.property = [type |-> "Identifier", name |-> "by"]
       \/ /\ init.callee.type = "MemberExpression"
          /\ init.callee.object = [type |-> "Identifier", name |-> "$state"]
          /\ init.callee.property = [type |-> "Identifier", name |-> "frozen"]

\* the binding's declarator is initialized by an opt-out call
OptOut(node) ==
    LET host == StmtOf(node).hosts[node.h] IN
    host.type = "VariableDeclarator" /\ IsOptOutCall(host.init)

\* the declaration statement that holds a binding, read off the statement
InDeclaration(node) == StmtOf(node).wrap = "VariableDeclaration"
DeclarationOf(node) == [s |-> node.s, h |-> 0, up |-> 2, p |-> <<>>]

\* the bindings a declaration introduces, nested ones included
Bindings(declaration) ==
    UNION { { [s |-> declaration.s, h |-> h, up |-> 0, p |-> IdentPaths(StmtOf(declaration).hosts[h].left)[k]] :
                k \in 1..Len(IdentPaths(StmtOf(declaration).hosts[h].left)) }
          : h \in 1..Len(StmtOf(declaration).hosts) }

NameOf(node) == NodeAt(StmtOf(node).hosts[node.h].left, node.p).name

\* the analyzer found the binding's variable convertible
Convertible(binding) ==
    \E i \in 1..Len(analysed) :
        /\ analysed[i].variable.name = NameOf(binding)
        /\ analysed[i].identifier # NullNode

\* for-in / for-of head, or an initializer on every declarator
FixSafe(declaration) ==
    \/ StmtOf(declaration).outer \in {"ForInStatement", "ForOfStatement"}
    \/ \A h \in 1..Len(StmtOf(declaration).hosts) :
          StmtOf(declaration).hosts[h].init.type # "none"

\* C4: a report of a declaration of several declarators carries a fix only
\* if every binding of the declaration, nested ones included, is convertible.
C4_FixOnlyIfAllConvertible ==
    \A i \in 1..Len(reports) :
        (reports[i].fix /\ Len(Declarations(reports[i].nodeParent)) > 1)
        => \A b \in Bindings(reports[i].nodeParent) : Convertible(b)

\* C5 as stated: in mode "any" the convertible members of a partly
\* convertible group whose declaration is safe to fix are reported with a fix.
C5_PartialGroupFixed ==
    \A k \in Processed :
        ( /\ destructuring # "all"
          /\ HasNull(k)
          /\ \A n \in NonNullMembers(k) : InDeclaration(n) /\ FixSafe(DeclarationOf(n)) )
        => \A n \in NonNullMembers(k) :
              ~OptOut(n) => \E i \in ReportsOf(k) : reports[i].node = n /\ reports[i].fix

\* C5 amended: in mode "any" the convertible members of a partly convertible
\* group that are no opt-out bindings are reported, and no report of the
\* group carries a fix.
C5_PartialGroupReportedWithoutFix ==
    \A k \in Processed :
        (destructuring # "all" /\ HasNull(k))
        => /\ \A n \in NonNullMembers(k) :
                 ~OptOut(n) => \E i \in ReportsOf(k) : reports[i].node = n
           /\ \A i \in ReportsOf(k) : ~reports[i].fix

\* a partly convertible group of a fully initialized declaration has been
\* reported in mode "any"
C5_Witness ==
    \E k \in Processed :
        /\ destructuring # "all"
        /\ HasNull(k)
        /\ \E n \in NonNullMembers(k) :
              /\ InDeclaration(n) /\ FixSafe(DeclarationOf(n))
              /\ \E i \in ReportsOf(k) : reports[i].node = n /\ ~reports[i].fix

\* C6: in mode "all" a group with a null member is not reported; in any other
\* mode every non-null member that is no opt-out binding is reported exactly
\* once; a group without non-null member is never reported.
C6_GroupReporting ==
    \A k \in Processed :
        /\ (destructuring = "all" /\ HasNull(k)) => ReportsOf(k) = {}
        /\ destructuring # "all" =>
              \A n \in NonNullMembers(k) :
                  ~OptOut(n) => Cardinality({ i \in ReportsOf(k) : reports[i].node = n }) = 1
        /\ NonNullMembers(k) = {} => ReportsOf(k) = {}

\* a group with a null and a non-null member has been passed to report() in
\* mode "all"
C6_Witness ==
    \E k \in Processed :
        /\ destructuring = "all"
        /\ HasNull(k)
        /\ \E n \in NonNullMembers(k) : ~OptOut(n)

\* C7: no report targets an opt-out binding, and no report that carries a
\* fix belongs to a declaration that holds an opt-out binding.
C7_OptOutNeverReportedNorFixed ==
    \A i \in 1..Len(reports) :
        /\ ~OptOut(reports[i].node)
        /\ reports[i].fix => \A b \in Bindings(reports[i].nodeParent) : ~OptOut(b)

\* C8: a report with a fix belongs to a declaration that is a for-in/for-of
\* head or has an initializer on every declarator; and a group of convertible
\* members of a declaration of one declarator that satisfies this is reported
\* with a fix.
C8_FixSafetyPrecondition ==
    /\ \A i \in 1..Len(reports) : reports[i].fix => FixSafe(reports[i].nodeParent)
    /\ \A k \in Processed :
          ( /\ ~HasNull(k)
            /\ \A n \in NonNullMembers(k) :
                  /\ InDeclaration(n)
                  /\ Len(StmtOf(n).hosts) = 1
                  /\ FixSafe(DeclarationOf(n)) )
          => \A i \in ReportsOf(k) : reports[i].fix

\* `for (let a of xs)`: the declarator has no initializer and the report of
\* a carries a fix
C8_Witness ==
    \E i \in 1..Len(reports) :
        /\ reports[i].fix
        /\ StmtOf(reports[i].nodeParent).outer = "ForOfStatement"
        /\ StmtOf(reports[i].nodeParent).hosts[1].init.type = "none"

\* ------------------------------------------------------------------------
\* Properties of the fixer (SpecF)
\* ------------------------------------------------------------------------

\* the anchor: the first token of the declaration whose value is the kind
Anchors == { i \in 1..Len(sourceCode.tokens) : sourceCode.tokens[i].value = fixParent.kind }
Anchor == sourceCode.tokens[CHOOSE i \in Anchors : \A j \in Anchors : i <= j].range

\* C9: with an anchor token the edit replaces the range from the smaller
\* start to the larger end of declaration and token by the text of that range
\* with the token's characters replaced by `const`, so that the text after
\* the fix is the text before it with only the token's characters replaced;
\* without an anchor token there is no edit and the text is unchanged.
C9_FixKeepsTextAroundKeyword ==
    /\ (pc \in {"apply", "done"} /\ Anchors # {}) =>
          /\ edit.range = <<Min(fixParent.range[1], Anchor[1]),
                            Max(fixParent.range[2], Anchor[2])>>
          /\ edit.text = SubSeq(sourceCode.text, edit.range[1] + 1, Anchor[1])
                          \o Const
                          \o SubSeq(sourceCode.text, Anchor[2] + 1, edit.range[2])
    /\ (pc = "done" /\ Anchors # {}) =>
          output = SubSeq(sourceCode.text, 1, Anchor[1])
                   \o Const
                   \o SubSeq(sourceCode.text, Anchor[2] + 1, Len(sourceCode.text))
    /\ (pc \in {"apply", "done"} /\ Anchors = {}) => edit = NoEdit
    /\ (pc = "done" /\ Anchors = {}) => output = sourceCode.text

\* a fix has been applied whose anchor token has text of the declaration
\* before and after it, and text outside the declaration on both sides
C9_Witness ==
    /\ pc = "done"
    /\ Anchors # {}
    /\ 0 < fixParent.range[1]
    /\ fixParent.range[1] < Anchor[1]
    /\ Anchor[2] < fixParent.range[2]
    /\ fixParent.range[2] < Len(sourceCode.text)
    /\ output # sourceCode.text

\* ------------------------------------------------------------------------
\* Further properties of the analyzer (Spec)
\* ------------------------------------------------------------------------

\* a member expression stands somewhere in the pattern tree
RECURSIVE HasMemberTarget(_)
HasMemberTarget(tree) ==
    \/ tree.type = "MemberExpression"
    \/ \E k \in 1..Len(tree.kids) : HasMemberTarget(tree.kids[k])

\* the left side of the host that holds a node
PatternOf(node) == StmtOf(node).hosts[node.h].left

\* C11: a variable with a write in a destructuring assignment whose pattern
\* holds a member expression target anywhere (directly, in an inner pattern,
\* under a default value or as the argument of a rest element) is not
\* convertible.
C11_MemberTargetBlocksPattern ==
    \A i \in Analysed :
        (\E n \in WriteNodes(i) : InPatternAssignment(n) /\ HasMemberTarget(PatternOf(n)))
        => analysed[i].identifier = NullNode

\* the first reference of an analysed variable reads and writes (`a += 1`)
FirstIsReadWrite(i) ==
    LET refs == analysed[i].variable.references IN
    refs # <<>> /\ refs[1].read /\ refs[1].write

\* C12: a pure read before the first write makes the variable not
\* convertible when ignoreReadBeforeAssign is set and otherwise makes the
\* result the identifier of the variable's first definition; without such a
\* read the result of a convertible variable is the writer's identifier. A
\* reference that reads and writes counts as the write: it does not make the
\* result null under ignoreReadBeforeAssign, nor move the anchor.
C12_ReadBeforeWriteAnchor ==
    \A i \in Analysed :
        /\ (ReadBeforeWrite(i) /\ ignoreReadBeforeAssign) => analysed[i].identifier = NullNode
        /\ (ReadBeforeWrite(i) /\ analysed[i].identifier # NullNode)
              => analysed[i].identifier = analysed[i].variable.defs[1].name
        /\ (~ReadBeforeWrite(i) /\ analysed[i].identifier # NullNode)
              => analysed[i].identifier \in WriteNodes(i)
        /\ ( /\ FirstIsReadWrite(i)
             /\ WrittenOnceInOwnScope(i)
             /\ SitsInDeclarable(TheWrite(i).identifier)
             /\ ~(analysed[i].variable.eslintUsed
                   /\ analysed[i].variable.scope = 0 /\ program.scope0 = "global") )
              => analysed[i].identifier = TheWrite(i).identifier

\* `let a; use(a); a = 1`: the variable is convertible and the result is the
\* identifier of the declaration, which is not the written identifier
C12_Witness ==
    \E i \in Analysed :
        /\ ReadBeforeWrite(i)
        /\ ~ignoreReadBeforeAssign
        /\ analysed[i].identifier = analysed[i].variable.defs[1].name
        /\ analysed[i].identifier \notin WriteNodes(i)

\* ------------------------------------------------------------------------
\* Further properties of the reporter (SpecR)
\* ------------------------------------------------------------------------

\* the group is checked: it has a non-null member and, in mode "all", no null
Checked(k) == NonNullMembers(k) # {} /\ (destructuring # "all" \/ ~HasNull(k))

\* the first non-null member of a group
FirstMember(k) == NonNull(Members(k))[1]

\* the group adds its members to the running count: it is checked and its
\* first member sits in a declaration of several declarators
Counted(k) ==
    /\ Checked(k)
    /\ InDeclaration(FirstMember(k))
    /\ Len(StmtOf(FirstMember(k)).hosts) > 1

\* members added by the counted groups 1..j of the declaration of group k
RECURSIVE OwnCount(_, _)
OwnCount(k, j) ==
    IF j = 0 THEN 0
    ELSE OwnCount(k, j - 1)
         + (IF Counted(j) /\ DeclarationOf(FirstMember(j)) = DeclarationOf(FirstMember(k))
            THEN Len(NonNull(Members(j)))
            ELSE 0)

\* C13: after a group of a declaration of several declarators has been
\* processed, the running count holds members of that declaration's own
\* groups only: members counted for another declaration have been dropped.
C13_CountHoldsOwnMembersOnly ==
    (reported >= 1 /\ Counted(reported)) => reporter.reportCount <= OwnCount(reported, reported)

\* ------------------------------------------------------------------------
\* Properties of the group map (Spec and SpecR)
\* ------------------------------------------------------------------------

\* the bindings syntactically present in the pattern of a host: its
\* identifier nodes
HostBindings(host) ==
    LET paths == IdentPaths(StmtOf(host).hosts[host.h].left) IN
    { [s |-> host.s, h |-> host.h, up |-> 0, p |-> paths[k]] : k \in 1..Len(paths) }

\* C14: every host of the map returned by groupByDestructuring has exactly
\* one entry per binding of its pattern, null for a member that is not
\* convertible, so that the list is free of null exactly when every binding
\* of the pattern is convertible.
C14_OneEntryPerBinding ==
    pc # "group" =>
        \A k \in 1..Len(identifierMap) :
            /\ Len(identifierMap[k].ids) = Cardinality(HostBindings(identifierMap[k].host))
            /\ ~HasNull(k) <=> \A b \in HostBindings(identifierMap[k].host) : Convertible(b)

====
